---- MODULE Spec2Model ----
(***************************************************************************)
(* The playback core of groovy-frontend: the zustand player store          *)
(* (src/store/playerStore.ts) and the usePlayer hook (src/hooks/           *)
(* usePlayer.ts) that bridges the store to the one shared HTMLAudioElement.*)
(*                                                                         *)
(* Units: times (progress, currentTime) are in tenths of a second, volume  *)
(* in tenths.  Songs are identified by their id; 0 stands for null.  A     *)
(* stream URL is identified with the id of the song it was resolved for.   *)
(***************************************************************************)
EXTENDS Integers, Sequences, FiniteSets, Bags, TLC

\* ------------------------------------------------------------------ bounds
NumSongs == 3
MaxQueue == 2
MaxHooks == 2
MaxPending == 2
MaxTimers == 2
MaxMoves == 1
\* length of every track, in tenths of a second
SongLength == 40
NumUsers == 2
MaxRequests == 2

\* ------------------------------------------------------- program constants
RestartThreshold == 30
SeekThreshold == 10
InitialVolume == 7
MaxVolume == 10

Min(a, b) == IF a < b THEN a ELSE b
Max(a, b) == IF a > b THEN a ELSE b
Abs(x) == IF x < 0 THEN -x ELSE x

\* ------------------------------------------------------------ input ranges
Songs == 1..NumSongs
EngineSongs == {1, 2}
\* The song lists handed to playQueue (an album, a playlist, a search
\* result): n consecutive songs of the catalogue starting at song first,
\* wrapping around
Run(first, n) == [k \in 1..n |-> ((first + k - 2) % NumSongs) + 1]
TrackLists == {Run(first, n) : first \in Songs, n \in 0..Min(NumSongs, MaxQueue + 1)}
QueueOrders == {q \in TrackLists : Len(q) <= MaxQueue}
StartIndexes == -1..(MaxQueue + 1)
ProgressInputs == {0, 29, 30, 31}
VolumeInputs == {-5, 7, 15}
DurationInputs == {0, 40}
\* the playhead advance between two 'timeupdate' events
TimeStep == 3
NoPlaylist == [id |-> 0, songs |-> <<>>]
Playlists == {[id |-> 1, songs |-> <<1, 2>>],
              [id |-> 2, songs |-> <<1, 2, 3>>],
              [id |-> 3, songs |-> <<>>]}
EnginePlaylists == {[id |-> 1, songs |-> <<1, 2>>]}

VARIABLES store, hooks, audio, pending, skipTimers, moveTimers,
          auth, token, authTasks

authVars == <<auth, token, authTasks>>

vars == <<store, hooks, audio, pending, skipTimers, moveTimers, authVars>>

\* ------------------------------------------------------------ array helpers
\* Array.prototype.splice(i, 1) on a copy, i one-based here
RemoveAt(q, i) == [k \in 1..(Len(q) - 1) |-> IF k < i THEN q[k] ELSE q[k + 1]]
\* Array.prototype.slice(n): drops the first n elements
DropFirst(q, n) == [k \in 1..(Len(q) - n) |-> q[k + n]]
\* Array.prototype.findIndex by song id, zero-based, -1 when absent
findIndex(q, id) ==
  IF \E k \in 1..Len(q) : q[k] = id
  THEN (CHOOSE k \in 1..Len(q) : q[k] = id /\ \A j \in 1..(k - 1) : q[j] # id) - 1
  ELSE -1
InQueue(q, id) == \E k \in 1..Len(q) : q[k] = id

\* ------------------------------------------------------------ player store
InitialStore ==
  [currentSong |-> 0, currentPlaylist |-> NoPlaylist, queue |-> <<>>,
   isPlaying |-> FALSE, volume |-> InitialVolume, progress |-> 0, duration |-> 0,
   isPlayerVisible |-> TRUE, isFullscreen |-> FALSE]

\* playSong() that also empties the queue
playSongClearsQueue(s, song) ==
  IF s.currentSong = song
  THEN IF ~s.isPlaying THEN [s EXCEPT !.isPlaying = TRUE] ELSE s
  ELSE [s EXCEPT !.currentSong = song, !.isPlaying = TRUE, !.progress = 0,
                 !.isPlayerVisible = TRUE, !.queue = <<>>]

\* playSong() without the same-track branch: it always restarts the track
playSongAlwaysRestarts(s, song) ==
  [s EXCEPT !.currentSong = song, !.isPlaying = TRUE, !.progress = 0,
            !.isPlayerVisible = TRUE]

playSong(s, song) ==
  IF s.currentSong = song
  THEN IF ~s.isPlaying THEN [s EXCEPT !.isPlaying = TRUE] ELSE s
  ELSE [s EXCEPT !.currentSong = song, !.isPlaying = TRUE, !.progress = 0,
                 !.isPlayerVisible = TRUE]

\* playQueue keeping only the tracks after startIndex
playQueueDropEarlier(s, songs, startIndex) ==
  IF Len(songs) = 0 \/ startIndex >= Len(songs) THEN s
  ELSE IF startIndex < 0 THEN s
  ELSE [s EXCEPT !.currentSong = songs[startIndex + 1],
                 !.queue = DropFirst(songs, startIndex + 1),
                 !.isPlaying = TRUE, !.progress = 0, !.isPlayerVisible = TRUE]

\* playQueue that forgets to reset progress
playQueueKeepProgress(s, songs, startIndex) ==
  IF Len(songs) = 0 \/ startIndex >= Len(songs) THEN s
  ELSE IF startIndex < 0 THEN s
  ELSE [s EXCEPT !.currentSong = songs[startIndex + 1],
                 !.queue = RemoveAt(songs, startIndex + 1),
                 !.isPlaying = TRUE, !.isPlayerVisible = TRUE]

\* startIndex is zero-based as in the source.  A negative startIndex passes
\* the guard, reads undefined from the array and throws at currentSong.title
\* before set() is reached.
playQueueThrows(songs, startIndex) ==
  ~(Len(songs) = 0 \/ startIndex >= Len(songs)) /\ startIndex < 0

playQueue(s, songs, startIndex) ==
  IF Len(songs) = 0 \/ startIndex >= Len(songs) THEN s
  ELSE IF startIndex < 0 THEN s
  ELSE [s EXCEPT !.currentSong = songs[startIndex + 1],
                 !.queue = RemoveAt(songs, startIndex + 1),
                 !.isPlaying = TRUE, !.progress = 0, !.isPlayerVisible = TRUE]

playPlaylistThrows(playlist, startIndex) ==
  Len(playlist.songs) # 0 /\ playQueueThrows(playlist.songs, startIndex)

playPlaylist(s, playlist, startIndex) ==
  IF Len(playlist.songs) = 0 THEN s
  ELSE playQueue([s EXCEPT !.currentPlaylist = playlist], playlist.songs, startIndex)

togglePlay(s) ==
  IF s.currentSong # 0 THEN [s EXCEPT !.isPlaying = ~s.isPlaying] ELSE s

\* play() without the currentSong guard
playUnguarded(s) == [s EXCEPT !.isPlaying = TRUE]

play(s) == IF s.currentSong # 0 THEN [s EXCEPT !.isPlaying = TRUE] ELSE s

pause(s) == [s EXCEPT !.isPlaying = FALSE]

\* next() whose stop branch keeps the progress
nextStopKeepsProgress(s) ==
  IF Len(s.queue) > 0
  THEN [s EXCEPT !.currentSong = s.queue[1], !.queue = DropFirst(s.queue, 1),
                 !.progress = 0, !.isPlaying = TRUE]
  ELSE IF s.currentPlaylist.id # 0 /\ Len(s.currentPlaylist.songs) > 0
  THEN [s EXCEPT !.currentSong = s.currentPlaylist.songs[1],
                 !.queue = DropFirst(s.currentPlaylist.songs, 1),
                 !.progress = 0, !.isPlaying = TRUE]
  ELSE [s EXCEPT !.isPlaying = FALSE]

\* next() that takes the last queued track
nextTakesLast(s) ==
  IF Len(s.queue) > 0
  THEN [s EXCEPT !.currentSong = s.queue[Len(s.queue)],
                 !.queue = SubSeq(s.queue, 1, Len(s.queue) - 1),
                 !.progress = 0, !.isPlaying = TRUE]
  ELSE IF s.currentPlaylist.id # 0 /\ Len(s.currentPlaylist.songs) > 0
  THEN [s EXCEPT !.currentSong = s.currentPlaylist.songs[1],
                 !.queue = DropFirst(s.currentPlaylist.songs, 1),
                 !.progress = 0, !.isPlaying = TRUE]
  ELSE [s EXCEPT !.isPlaying = FALSE, !.progress = 0]

\* next() whose stop branch also drops the current track
nextClearsTrack(s) ==
  IF Len(s.queue) > 0
  THEN [s EXCEPT !.currentSong = s.queue[1], !.queue = DropFirst(s.queue, 1),
                 !.progress = 0, !.isPlaying = TRUE]
  ELSE IF s.currentPlaylist.id # 0 /\ Len(s.currentPlaylist.songs) > 0
  THEN [s EXCEPT !.currentSong = s.currentPlaylist.songs[1],
                 !.queue = DropFirst(s.currentPlaylist.songs, 1),
                 !.progress = 0, !.isPlaying = TRUE]
  ELSE [s EXCEPT !.isPlaying = FALSE, !.progress = 0, !.currentSong = 0]

\* next() whose playlist restart queues the whole playlist again
nextRestartKeepsFirst(s) ==
  IF Len(s.queue) > 0
  THEN [s EXCEPT !.currentSong = s.queue[1], !.queue = DropFirst(s.queue, 1),
                 !.progress = 0, !.isPlaying = TRUE]
  ELSE IF s.currentPlaylist.id # 0 /\ Len(s.currentPlaylist.songs) > 0
  THEN [s EXCEPT !.currentSong = s.currentPlaylist.songs[1],
                 !.queue = s.currentPlaylist.songs,
                 !.progress = 0, !.isPlaying = TRUE]
  ELSE [s EXCEPT !.isPlaying = FALSE, !.progress = 0]

next(s) ==
  IF Len(s.queue) > 0
  THEN [s EXCEPT !.currentSong = s.queue[1], !.queue = DropFirst(s.queue, 1),
                 !.progress = 0, !.isPlaying = TRUE]
  ELSE IF s.currentPlaylist.id # 0 /\ Len(s.currentPlaylist.songs) > 0
  THEN [s EXCEPT !.currentSong = s.currentPlaylist.songs[1],
                 !.queue = DropFirst(s.currentPlaylist.songs, 1),
                 !.progress = 0, !.isPlaying = TRUE]
  ELSE [s EXCEPT !.isPlaying = FALSE, !.progress = 0]

\* previous() whose new queue starts after the track that was current
previousSuffixAfter(s) ==
  IF s.progress > RestartThreshold THEN [s EXCEPT !.progress = 0]
  ELSE IF s.currentPlaylist.id # 0 /\ Len(s.currentPlaylist.songs) > 0
  THEN LET currentIndex == findIndex(s.currentPlaylist.songs, s.currentSong)
       IN  IF currentIndex > 0
           THEN [s EXCEPT !.currentSong = s.currentPlaylist.songs[currentIndex],
                          !.queue = DropFirst(s.currentPlaylist.songs, currentIndex + 1),
                          !.progress = 0, !.isPlaying = TRUE]
           ELSE [s EXCEPT !.progress = 0]
  ELSE s

\* previous() with the threshold comparison reversed
previousReversed(s) ==
  IF s.progress < RestartThreshold THEN [s EXCEPT !.progress = 0]
  ELSE IF s.currentPlaylist.id # 0 /\ Len(s.currentPlaylist.songs) > 0
  THEN LET currentIndex == findIndex(s.currentPlaylist.songs, s.currentSong)
       IN  IF currentIndex > 0
           THEN [s EXCEPT !.currentSong = s.currentPlaylist.songs[currentIndex],
                          !.queue = DropFirst(s.currentPlaylist.songs, currentIndex),
                          !.progress = 0, !.isPlaying = TRUE]
           ELSE [s EXCEPT !.progress = 0]
  ELSE s

\* previous() whose restart branch also resumes playback
previousRestartPlays(s) ==
  IF s.progress > RestartThreshold THEN [s EXCEPT !.progress = 0, !.isPlaying = TRUE]
  ELSE IF s.currentPlaylist.id # 0 /\ Len(s.currentPlaylist.songs) > 0
  THEN LET currentIndex == findIndex(s.currentPlaylist.songs, s.currentSong)
       IN  IF currentIndex > 0
           THEN [s EXCEPT !.currentSong = s.currentPlaylist.songs[currentIndex],
                          !.queue = DropFirst(s.currentPlaylist.songs, currentIndex),
                          !.progress = 0, !.isPlaying = TRUE]
           ELSE [s EXCEPT !.progress = 0]
  ELSE s

\* previous() that restarts the track when there is no playlist to go back in
previousNoContextRestarts(s) ==
  IF s.progress > RestartThreshold THEN [s EXCEPT !.progress = 0]
  ELSE IF s.currentPlaylist.id # 0 /\ Len(s.currentPlaylist.songs) > 0
  THEN LET currentIndex == findIndex(s.currentPlaylist.songs, s.currentSong)
       IN  IF currentIndex > 0
           THEN [s EXCEPT !.currentSong = s.currentPlaylist.songs[currentIndex],
                          !.queue = DropFirst(s.currentPlaylist.songs, currentIndex),
                          !.progress = 0, !.isPlaying = TRUE]
           ELSE [s EXCEPT !.progress = 0]
  ELSE [s EXCEPT !.progress = 0]

previous(s) ==
  IF s.progress > RestartThreshold THEN [s EXCEPT !.progress = 0]
  ELSE IF s.currentPlaylist.id # 0 /\ Len(s.currentPlaylist.songs) > 0
  THEN LET currentIndex == findIndex(s.currentPlaylist.songs, s.currentSong)
       IN  IF currentIndex > 0
           THEN [s EXCEPT !.currentSong = s.currentPlaylist.songs[currentIndex],
                          !.queue = DropFirst(s.currentPlaylist.songs, currentIndex),
                          !.progress = 0, !.isPlaying = TRUE]
           ELSE [s EXCEPT !.progress = 0]
  ELSE s

\* setVolume() without the clamp
setVolumeUnclamped(s, volume) == [s EXCEPT !.volume = volume]

setVolume(s, volume) == [s EXCEPT !.volume = Max(0, Min(MaxVolume, volume))]

setProgress(s, progress) == [s EXCEPT !.progress = progress]

setDuration(s, duration) == [s EXCEPT !.duration = duration]

addToQueue(s, song) == [s EXCEPT !.queue = Append(s.queue, song)]

\* index is zero-based as in the source
removeFromQueue(s, index) ==
  IF index >= 0 /\ index < Len(s.queue)
  THEN [s EXCEPT !.queue = RemoveAt(s.queue, index + 1)]
  ELSE s

clearQueue(s) == [s EXCEPT !.queue = <<>>]

updateQueueOrder(s, newQueue) == [s EXCEPT !.queue = newQueue]

\* stopAndClosePlayer() that keeps the playlist context
stopAndClosePlayerKeepsPlaylist(s) ==
  [s EXCEPT !.isPlaying = FALSE, !.currentSong = 0,
            !.queue = <<>>, !.progress = 0, !.isPlayerVisible = FALSE,
            !.isFullscreen = FALSE]

stopAndClosePlayer(s) ==
  [s EXCEPT !.isPlaying = FALSE, !.currentSong = 0, !.currentPlaylist = NoPlaylist,
            !.queue = <<>>, !.progress = 0, !.isPlayerVisible = FALSE,
            !.isFullscreen = FALSE]

togglePlayerVisibility(s) ==
  [s EXCEPT !.isPlayerVisible = ~s.isPlayerVisible,
            !.isFullscreen = IF ~s.isPlayerVisible THEN FALSE ELSE s.isFullscreen]

\* toggleFullscreen() that leaves a hidden player hidden
toggleFullscreenKeepsHidden(s) ==
  IF ~s.isPlayerVisible
  THEN [s EXCEPT !.isFullscreen = TRUE]
  ELSE [s EXCEPT !.isFullscreen = ~s.isFullscreen]

toggleFullscreen(s) ==
  IF ~s.isPlayerVisible
  THEN [s EXCEPT !.isPlayerVisible = TRUE, !.isFullscreen = TRUE]
  ELSE [s EXCEPT !.isFullscreen = ~s.isFullscreen]

\* ------------------------------------------------- audio bridge (usePlayer)
\* The module-level globalAudioElement.  src = 0 is the empty source.
\* hasMetadata is "duration is not NaN".  created counts the calls of
\* new Audio() that were assigned to globalAudioElement.
InitialAudio ==
  [exists |-> FALSE, created |-> 0, src |-> 0, paused |-> TRUE, currentTime |-> 0,
   hasMetadata |-> FALSE, volume |-> MaxVolume]

\* songService.getStreamUrl resolutions that have been started and have not
\* completed yet: the part of loadSong / handlePlayPause after the await.
\* playing is the isPlaying value captured by the closure.
LoadTask(song, playing) == [kind |-> "load", song |-> song, playing |-> playing]
ResumeTask(song) == [kind |-> "resume", song |-> song, playing |-> TRUE]
Tasks == {LoadTask(song, playing) : song \in Songs, playing \in BOOLEAN}
           \cup {ResumeTask(song) : song \in Songs}

\* HTMLMediaElement.pause()
devicePause(a) == [a EXCEPT !.paused = TRUE]

\* a play() that never starts playback
devicePlayIgnored(a, accepted) == a

\* HTMLMediaElement.play(): accepted starts playback, a rejected promise is
\* swallowed by .catch(() => {}) and leaves the element as it was.
devicePlay(a, accepted) == IF accepted THEN [a EXCEPT !.paused = FALSE] ELSE a

\* assigning src and calling load(): the media element load algorithm
deviceLoad(a, url) ==
  [a EXCEPT !.src = url, !.paused = TRUE, !.currentTime = 0, !.hasMetadata = FALSE]

\* a volume effect without the null test: every run makes a new element
volumeEffectRecreates(e, s) ==
  [e EXCEPT !.audio = [InitialAudio EXCEPT !.exists = TRUE,
                                           !.created = e.audio.created + 1,
                                           !.volume = s.volume]]

\* useEffect(..., [volume]) (twice in the hook): create the element on first
\* use (globalAudioElement is null), mirror the volume.
volumeEffect(e, s) ==
  [e EXCEPT !.audio = [e.audio EXCEPT !.exists = TRUE,
                                      !.created = IF e.audio.exists THEN @ ELSE @ + 1,
                                      !.volume = s.volume]]

\* useEffect(loadSong, [currentSong, isPlaying]): the part before the await
loadSongEffect(e, s) ==
  IF s.currentSong # 0
  THEN [e EXCEPT !.pending = e.pending (+) SetToBag({LoadTask(s.currentSong, s.isPlaying)})]
  ELSE e

\* useEffect(handlePlayPause, [isPlaying, currentSong]): the part before the await
handlePlayPauseEffect(e, s) ==
  IF s.currentSong # 0
  THEN IF s.isPlaying
       THEN IF e.audio.paused
            THEN [e EXCEPT !.pending = e.pending (+) SetToBag({ResumeTask(s.currentSong)})]
            ELSE e
       ELSE IF ~e.audio.paused
            THEN [e EXCEPT !.audio = devicePause(e.audio)]
            ELSE e
  ELSE e

\* the seek effect without the threshold: every progress change is written
seekEffectAlways(e, s) ==
  IF e.audio.hasMetadata
  THEN [e EXCEPT !.audio = [e.audio EXCEPT !.currentTime = s.progress]]
  ELSE e

\* useEffect(..., [progress]): seek only on a discrepancy above one second
seekEffect(e, s) ==
  IF e.audio.hasMetadata /\ Abs(e.audio.currentTime - s.progress) > SeekThreshold
  THEN [e EXCEPT !.audio = [e.audio EXCEPT !.currentTime = s.progress]]
  ELSE e

\* useEffect(..., [isPlayerVisible])
visibilityEffect(e, s) ==
  IF ~s.isPlayerVisible
  THEN [e EXCEPT !.audio = [devicePause(e.audio) EXCEPT !.currentTime = 0]]
  ELSE e

\* hook effects whose load and play/pause effects depend on currentSong only
hookEffectsSongOnly(e, old, new) ==
  LET songDep == old.currentSong # new.currentSong
      e1 == IF old.volume # new.volume THEN volumeEffect(e, new) ELSE e
      e2 == IF songDep THEN loadSongEffect(e1, new) ELSE e1
      e3 == IF songDep THEN handlePlayPauseEffect(e2, new) ELSE e2
      e4 == IF old.volume # new.volume THEN volumeEffect(e3, new) ELSE e3
      e5 == IF old.progress # new.progress THEN seekEffect(e4, new) ELSE e4
  IN  IF old.isPlayerVisible # new.isPlayerVisible THEN visibilityEffect(e5, new) ELSE e5

\* The effects of one hook instance after a render in which the store went
\* from old to new, in declaration order; an effect runs when one of its
\* dependencies changed (compared by value: songs are their ids).
hookEffects(e, old, new) ==
  LET songDep == old.currentSong # new.currentSong \/ old.isPlaying # new.isPlaying
      e1 == IF old.volume # new.volume THEN volumeEffect(e, new) ELSE e
      e2 == IF songDep THEN loadSongEffect(e1, new) ELSE e1
      e3 == IF songDep THEN handlePlayPauseEffect(e2, new) ELSE e2
      e4 == IF old.volume # new.volume THEN volumeEffect(e3, new) ELSE e3
      e5 == IF old.progress # new.progress THEN seekEffect(e4, new) ELSE e4
  IN  IF old.isPlayerVisible # new.isPlayerVisible THEN visibilityEffect(e5, new) ELSE e5

\* Every effect runs when a hook instance mounts.
mountEffects(e, s) ==
  visibilityEffect(seekEffect(volumeEffect(handlePlayPauseEffect(
    loadSongEffect(volumeEffect(e, s), s), s), s), s), s)

\* All n mounted instances of the hook react to the same store change.
RECURSIVE allHookEffects(_, _, _, _)
allHookEffects(e, old, new, n) ==
  IF n = 0 THEN e ELSE allHookEffects(hookEffects(e, old, new), old, new, n - 1)

Engine == [audio |-> audio, pending |-> pending]

\* The store goes to s2 and the mounted hooks re-render, starting from the
\* device a and the resolutions p in flight.
Rerender(s2, a, p) ==
  LET e == allHookEffects([audio |-> a, pending |-> p], store, s2, hooks)
  IN  /\ BagCardinality(e.pending) <= MaxPending
      /\ store' = s2
      /\ audio' = e.audio
      /\ pending' = e.pending

\* A store operation called by a component.
StoreStep(s2) ==
  /\ Rerender(s2, audio, pending)
  /\ UNCHANGED <<hooks, skipTimers, moveTimers, authVars>>

\* loadSong without the comparison of the loaded source with the resolved url
loadSongResolvedAlwaysReloads(a, task, accepted) ==
  LET loaded == deviceLoad([devicePause(a) EXCEPT !.currentTime = 0], task.song)
  IN  IF task.playing THEN devicePlay(loaded, accepted) ELSE loaded

\* The code after the await in loadSong, for the resolved url of task.song
loadSongResolved(a, task, accepted) ==
  IF a.src # 0 /\ a.src = task.song
  THEN IF task.playing /\ a.paused THEN devicePlay(a, accepted) ELSE a
  ELSE LET loaded == deviceLoad([devicePause(a) EXCEPT !.currentTime = 0], task.song)
       IN  IF task.playing THEN devicePlay(loaded, accepted) ELSE loaded

\* The code after the await in handlePlayPause
handlePlayPauseResolved(a, task, accepted) ==
  IF a.src = 0 \/ a.src # task.song
  THEN devicePlay(deviceLoad(a, task.song), accepted)
  ELSE devicePlay(a, accepted)

\* a catch block that unloads the element
resolutionRejectedUnloads(a, task) == deviceLoad(a, 0)

\* The catch {} of loadSong and of handlePlayPause: a rejected getStreamUrl
\* skips the rest of the try block, nothing is done to the element.
resolutionRejected(a, task) == a

\* The 'timeupdate' listeners of the n mounted hooks: each one calls
\* setProgress(audio.currentTime) with the same value.
handleTimeUpdateAll(s, a, n) == IF n > 0 THEN setProgress(s, a.currentTime) ELSE s

\* The 'loadedmetadata' listeners: setDuration(audio.duration)
handleLoadedMetadataAll(s, n) == IF n > 0 THEN setDuration(s, SongLength) ELSE s

\* The 'ended' listeners of the n mounted hooks, called in registration
\* order.  Each call of next() re-renders the hooks before the following
\* listener runs (zustand notifies through useSyncExternalStore, React 18
\* flushes the synchronous render and its effects in a microtask, and the
\* browser runs microtasks after each listener).  When queue.length changed,
\* handleError is a new callback, the registration effect of every hook
\* removes and re-adds its four listeners, and a listener removed during a
\* dispatch is not called by that dispatch.
RECURSIVE handleEndedAll(_, _)
handleEndedAll(s, n) ==
  IF n = 0 THEN s
  ELSE LET s1 == next(s)
       IN  IF Len(s1.queue) # Len(s.queue) THEN s1 ELSE handleEndedAll(s1, n - 1)

\* error listeners that skip at the time of the event
handleErrorStoreSkipsAtOnce(s, n) ==
  IF n > 0 THEN (IF Len(s.queue) = 0 THEN pause(s) ELSE next(s)) ELSE s

\* The 'error' listeners of the n mounted hooks: each one schedules its own
\* skip when the queue is not empty (no store change, so no listener is
\* re-registered in between), and pauses otherwise.
handleErrorStore(s, n) == IF n > 0 /\ Len(s.queue) = 0 THEN pause(s) ELSE s
handleErrorTimers(s, n) == IF Len(s.queue) > 0 THEN n ELSE 0

\* --------------------------------------------------------------- auth store
\* The users of the service; 0 stands for null / undefined.
Users == 1..NumUsers

\* localStorage's 'token' entry: the user the token was issued to (0: no
\* entry) and whether its expiration lies less than 10 s ahead.
NoToken == [user |-> 0, expired |-> FALSE]
Tokens == {NoToken} \cup [user : Users, expired : BOOLEAN]

\* authService.isAuthenticated()
authServiceIsAuthenticated(tok) == tok.user # 0 /\ ~tok.expired

\* The request interceptor: an expired token is removed before the request
\* is sent, a valid one travels in the Authorization header.
requestInterceptor(tok) == IF tok.user # 0 /\ tok.expired THEN NoToken ELSE tok

\* The auth store's state after create()
InitialAuth(tok) ==
  [user |-> 0,
   isAuthenticated |-> authServiceIsAuthenticated(tok),
   isLoading |-> FALSE,
   error |-> "null"]

\* login / register up to the await
loginStarted(a) == [a EXCEPT !.isLoading = TRUE, !.error = "null"]

\* login / register: the response carries no token
loginFailed(a, message) == [a EXCEPT !.error = message, !.isLoading = FALSE]

\* login / register: the callback handed to setTimeout(..., 100)
loginTimerFired(a, user) ==
  [a EXCEPT !.user = user, !.isAuthenticated = TRUE, !.isLoading = FALSE]

\* logout's set()
logoutAuth(a) == [a EXCEPT !.user = 0, !.isAuthenticated = FALSE]

\* loadUser returning before the request: no valid token, or a public page
loadUserNoToken(a) == [a EXCEPT !.user = 0, !.isAuthenticated = FALSE]
loadUserPublicPage(a) == [a EXCEPT !.isLoading = FALSE]
loadUserStarted(a) == [a EXCEPT !.isLoading = TRUE]

\* loadUser after the await: the response has data, or it has none
loadUserData(a, data) ==
  [a EXCEPT !.user = data, !.isAuthenticated = TRUE, !.isLoading = FALSE]
loadUserNoData(a, message) ==
  [a EXCEPT !.user = 0, !.isAuthenticated = FALSE, !.isLoading = FALSE,
            !.error = message]

\* What is in flight: a login or register request, the delayed update of a
\* successful one (with the user of the response, 0 if it had none), a
\* getCurrentUser request (with the user its token names and the user id
\* loadUser read before the call, 0 for undefined).
AuthRequest(kind) == [kind |-> kind, user |-> 0, currentUserId |-> 0]
AuthTimer(user) == [kind |-> "timer", user |-> user, currentUserId |-> 0]
LoadUserRequest(user, currentUserId) ==
  [kind |-> "loadUser", user |-> user, currentUserId |-> currentUserId]
AuthTimers == {AuthTimer(user) : user \in 0..NumUsers}
LoadUserRequests ==
  {LoadUserRequest(user, currentUserId) :
     user \in Users, currentUserId \in 0..NumUsers}
AuthTaskKinds ==
  {AuthRequest("login"), AuthRequest("register")} \cup AuthTimers
    \cup LoadUserRequests

\* The delayed updates and getCurrentUser requests in flight
InFlight(K) == {task \in K : BagIn(task, authTasks)}

\* The auth store is constructed with no token in localStorage.
AuthConstructed ==
  /\ token = NoToken
  /\ auth = InitialAuth(NoToken)
  /\ authTasks = EmptyBag

\* ------------------------------------------------------------------ actions
Init ==
  /\ store = InitialStore
  /\ hooks = 0
  /\ audio = InitialAudio
  /\ pending = EmptyBag
  /\ skipTimers = 0
  /\ moveTimers = <<>>
  /\ AuthConstructed

PlaySong(S) ==
  \E song \in S :
    StoreStep(playSong(store, song))

PlayQueue(L) ==
  \E songs \in L, startIndex \in StartIndexes :
    StoreStep(playQueue(store, songs, startIndex))

PlayPlaylist(P) ==
  \E playlist \in P, startIndex \in StartIndexes :
    StoreStep(playPlaylist(store, playlist, startIndex))

TogglePlay == StoreStep(togglePlay(store))

Play == StoreStep(play(store))

Pause == StoreStep(pause(store))

NextSong == StoreStep(next(store))

Previous == StoreStep(previous(store))

SetVolume == \E volume \in VolumeInputs : StoreStep(setVolume(store, volume))

SetProgress == \E progress \in ProgressInputs : StoreStep(setProgress(store, progress))

SetDuration == \E duration \in DurationInputs : StoreStep(setDuration(store, duration))

AddToQueue(S) ==
  /\ Len(store.queue) < MaxQueue
  /\ \E song \in S : StoreStep(addToQueue(store, song))

RemoveFromQueue ==
  \E index \in StartIndexes : StoreStep(removeFromQueue(store, index))

ClearQueue == StoreStep(clearQueue(store))

UpdateQueueOrder ==
  \E newQueue \in QueueOrders : StoreStep(updateQueueOrder(store, newQueue))

StopAndClosePlayer == StoreStep(stopAndClosePlayer(store))

TogglePlayerVisibility == StoreStep(togglePlayerVisibility(store))

ToggleFullscreen == StoreStep(toggleFullscreen(store))

\* A component that calls usePlayer() mounts: all its effects run.
Mount ==
  /\ hooks < MaxHooks
  /\ LET e == mountEffects(Engine, store)
     IN  /\ BagCardinality(e.pending) <= MaxPending
         /\ audio' = e.audio
         /\ pending' = e.pending
  /\ hooks' = hooks + 1
  /\ UNCHANGED <<store, skipTimers, moveTimers, authVars>>

\* A component unmounts: its listeners are removed, the element stays.
Unmount ==
  /\ hooks > 0
  /\ hooks' = hooks - 1
  /\ UNCHANGED <<store, audio, pending, skipTimers, moveTimers, authVars>>

\* A stream-URL resolution completes and the rest of its effect runs; the
\* device accepts or rejects the play() the effect may call.
ResolveWith(task, accepted) ==
  /\ BagIn(task, pending)
  /\ pending' = pending (-) SetToBag({task})
  /\ audio' = IF task.kind = "load"
              THEN loadSongResolved(audio, task, accepted)
              ELSE handlePlayPauseResolved(audio, task, accepted)
  /\ UNCHANGED <<store, hooks, skipTimers, moveTimers, authVars>>

Resolve(task) == \E accepted \in BOOLEAN : ResolveWith(task, accepted)

ResolveSome == \E task \in Tasks : Resolve(task)

\* A resolution completes and the device accepts play().
ResolveAcceptedSome == \E task \in Tasks : ResolveWith(task, TRUE)

\* A stream-URL resolution rejects.
Reject(task) ==
  /\ BagIn(task, pending)
  /\ pending' = pending (-) SetToBag({task})
  /\ audio' = resolutionRejected(audio, task)
  /\ UNCHANGED <<store, hooks, skipTimers, moveTimers, authVars>>

RejectSome == \E task \in Tasks : Reject(task)

\* The element has read the header of its source and fires 'loadedmetadata'.
DeviceLoadedMetadata ==
  /\ audio.src # 0
  /\ ~audio.hasMetadata
  /\ Rerender(handleLoadedMetadataAll(store, hooks),
              [audio EXCEPT !.hasMetadata = TRUE], pending)
  /\ UNCHANGED <<hooks, skipTimers, moveTimers, authVars>>

\* The element plays on by TimeStep and fires 'timeupdate'.
DeviceTimeUpdate ==
  /\ audio.src # 0
  /\ audio.hasMetadata
  /\ ~audio.paused
  /\ audio.currentTime < SongLength
  /\ LET a == [audio EXCEPT !.currentTime = Min(audio.currentTime + TimeStep, SongLength)]
     IN  Rerender(handleTimeUpdateAll(store, a, hooks), a, pending)
  /\ UNCHANGED <<hooks, skipTimers, moveTimers, authVars>>

\* The element reaches the end of its source and fires 'ended'.
DeviceEnded ==
  /\ audio.src # 0
  /\ ~audio.paused
  /\ Rerender(handleEndedAll(store, hooks), devicePause(audio), pending)
  /\ UNCHANGED <<hooks, skipTimers, moveTimers, authVars>>

\* The element fires 'error' for its source.
DeviceError ==
  /\ audio.src # 0
  /\ skipTimers + handleErrorTimers(store, hooks) <= MaxTimers
  /\ skipTimers' = skipTimers + handleErrorTimers(store, hooks)
  /\ Rerender(handleErrorStore(store, hooks), audio, pending)
  /\ UNCHANGED <<hooks, moveTimers, authVars>>

\* A setTimeout(() => next(), 500) of handleError fires.
SkipTimer ==
  /\ skipTimers > 0
  /\ skipTimers' = skipTimers - 1
  /\ Rerender(next(store), audio, pending)
  /\ UNCHANGED <<hooks, moveTimers, authVars>>

\* [newQueue[i], newQueue[j]] = [newQueue[j], newQueue[i]] on a copy of the
\* queue; i and j count from 0
swapEntries(queue, i, j) ==
  [k \in 1..Len(queue) |-> IF k = i + 1 THEN queue[j + 1]
                           ELSE IF k = j + 1 THEN queue[i + 1]
                           ELSE queue[k]]

\* The setTimeout callbacks of the queue panel.  Every one of them has the
\* same delay of 100 ms, so they fire in the order they were set: moveTimers
\* is that order.  A callback of stage 1 calls playSong(song) and sets the
\* callback of stage 2, which calls playSong(second).  newQueue and current
\* are the swapped copy and the currentSong of the render whose button was
\* clicked.
MoveTimerTask(song, second, newQueue, current) ==
  [stage |-> 1, song |-> song, second |-> second,
   newQueue |-> newQueue, current |-> current]

\* moveSongUp(index) of the queue panel, which is a mounted hook user
MoveSongUp ==
  /\ hooks > 0
  /\ Len(moveTimers) < MaxMoves
  /\ \E index \in 0..(Len(store.queue) - 1) :
       /\ ~(index <= 0)
       /\ LET newQueue == swapEntries(store.queue, index, index - 1)
              removedSong == newQueue[index + 1]
          IN  /\ Rerender(removeFromQueue(removeFromQueue(store, index), index - 1),
                          audio, pending)
              /\ moveTimers' = Append(moveTimers,
                    MoveTimerTask(removedSong, newQueue[index], newQueue, store.currentSong))
  /\ UNCHANGED <<hooks, skipTimers, authVars>>

\* moveSongDown(index) of the queue panel
MoveSongDown ==
  /\ hooks > 0
  /\ Len(moveTimers) < MaxMoves
  /\ \E index \in 0..(Len(store.queue) - 1) :
       /\ ~(index >= Len(store.queue) - 1)
       /\ LET newQueue == swapEntries(store.queue, index, index + 1)
              removedSong == newQueue[index + 1]
          IN  /\ Rerender(removeFromQueue(removeFromQueue(store, index), index),
                          audio, pending)
              /\ moveTimers' = Append(moveTimers,
                    MoveTimerTask(removedSong, newQueue[index + 1], newQueue, store.currentSong))
  /\ UNCHANGED <<hooks, skipTimers, authVars>>

\* The oldest setTimeout callback of the queue panel fires.
MoveTimer ==
  /\ moveTimers # <<>>
  /\ LET timer == Head(moveTimers)
     IN  /\ Rerender(playSong(store, timer.song), audio, pending)
         /\ moveTimers' =
              IF timer.stage = 1
              THEN Append(Tail(moveTimers), [timer EXCEPT !.stage = 2, !.song = timer.second])
              ELSE Tail(moveTimers)
  /\ UNCHANGED <<hooks, skipTimers, authVars>>

\* The store on its own: no component that uses the hook is mounted.
StoreNext ==
  \/ PlaySong(Songs)
  \/ PlayQueue(TrackLists)
  \/ PlayPlaylist(Playlists)
  \/ TogglePlay
  \/ Play
  \/ Pause
  \/ NextSong
  \/ Previous
  \/ SetVolume
  \/ SetProgress
  \/ SetDuration
  \/ AddToQueue(Songs)
  \/ RemoveFromQueue
  \/ ClearQueue
  \/ UpdateQueueOrder
  \/ StopAndClosePlayer
  \/ TogglePlayerVisibility
  \/ ToggleFullscreen

StoreSpec == Init /\ [][StoreNext]_vars

\* Store, hooks and audio element together.
Next ==
  \/ Mount
  \/ Unmount
  \/ ResolveSome
  \/ DeviceEnded
  \/ DeviceError
  \/ SkipTimer
  \/ PlaySong(EngineSongs)
  \/ PlayPlaylist(EnginePlaylists)
  \/ TogglePlay
  \/ Pause
  \/ NextSong
  \/ Previous
  \/ AddToQueue(EngineSongs)
  \/ ClearQueue
  \/ StopAndClosePlayer
  \/ TogglePlayerVisibility

Spec == Init /\ [][Next]_vars

\* The playhead: a track is loaded and played, the element reports its time,
\* the user seeks.
SeekNext ==
  \/ Mount
  \/ Unmount
  \/ PlaySong(EngineSongs)
  \/ TogglePlay
  \/ SetProgress
  \/ ResolveSome
  \/ DeviceLoadedMetadata
  \/ DeviceTimeUpdate

SeekSpec == Init /\ [][SeekNext]_vars

\* The life of the audio element: components mount and unmount, the volume
\* changes, tracks are played and the player is closed.
DeviceNext ==
  \/ Mount
  \/ Unmount
  \/ SetVolume
  \/ PlaySong(EngineSongs)
  \/ TogglePlay
  \/ StopAndClosePlayer
  \/ ResolveSome

DeviceSpec == Init /\ [][DeviceNext]_vars

\* The queue panel: tracks are queued and played, entries are moved up and
\* down.
QueueNext ==
  \/ AddToQueue(EngineSongs)
  \/ MoveSongUp
  \/ MoveSongDown
  \/ MoveTimer
  \/ ResolveSome

\* The player bar with its queue panel has been mounted: one hook user.
QueueInit ==
  /\ store = InitialStore
  /\ hooks = 1
  /\ audio = mountEffects([audio |-> InitialAudio, pending |-> EmptyBag], InitialStore).audio
  /\ pending = EmptyBag
  /\ skipTimers = 0
  /\ moveTimers = <<>>
  /\ AuthConstructed

QueueSpec == QueueInit /\ [][QueueNext]_vars

\* The engine after n components that use the hook have mounted around the
\* initial store: the element exists with the store's volume.
MountedEngine ==
  mountEffects([audio |-> InitialAudio, pending |-> EmptyBag], InitialStore)

\* playSong(song) has just been called on the initial store (nothing loaded,
\* player visible) with hooks mounted, and their effects have run.
StartInit ==
  /\ hooks \in 1..MaxHooks
  /\ store \in {playSong(InitialStore, song) : song \in Songs}
  /\ audio = allHookEffects(MountedEngine, InitialStore, store, hooks).audio
  /\ pending = allHookEffects(MountedEngine, InitialStore, store, hooks).pending
  /\ skipTimers = 0
  /\ moveTimers = <<>>
  /\ AuthConstructed

\* No further store operation is called: components mount and unmount, the
\* element reads its header, resolutions succeed and play() is accepted.
StartNext ==
  \/ Mount
  \/ Unmount
  \/ DeviceLoadedMetadata
  \/ ResolveAcceptedSome

\* Every started resolution completes in the end.
StartSpec == StartInit /\ [][StartNext]_vars /\ WF_vars(ResolveAcceptedSome)

\* The sessions a user can start from the initial store: a list of songs or
\* a playlist from one of its tracks.
StartedSessions ==
  {playQueue(InitialStore, songs, startIndex) :
     songs \in {q \in TrackLists : Len(q) > 0}, startIndex \in 0..0}
  \cup {playPlaylist(InitialStore, playlist, 0) :
          playlist \in {pl \in Playlists : Len(pl.songs) > 0}}

\* A session has just been started with hooks mounted and their effects have
\* run.
ErrorInit ==
  /\ hooks \in 1..MaxHooks
  /\ store \in StartedSessions
  /\ audio = allHookEffects(MountedEngine, InitialStore, store, hooks).audio
  /\ pending = allHookEffects(MountedEngine, InitialStore, store, hooks).pending
  /\ skipTimers = 0
  /\ moveTimers = <<>>
  /\ AuthConstructed

\* The track the element has loaded cannot be played: once the resolutions
\* have completed and no skip is waiting, the element fires 'error'.
TrackFails ==
  /\ pending = EmptyBag
  /\ skipTimers = 0
  /\ DeviceError

\* No store operation is called by the user: resolutions complete, every
\* loaded track fails, the delayed skips fire.
ErrorNext ==
  \/ ResolveAcceptedSome
  \/ TrackFails
  \/ SkipTimer

ErrorSpec ==
  /\ ErrorInit /\ [][ErrorNext]_vars
  /\ WF_vars(ResolveAcceptedSome) /\ WF_vars(TrackFails) /\ WF_vars(SkipTimer)

\* ------------------------------------------------------- auth store steps
\* login(email, password) / register(userData) up to the await
AuthCall(kind) ==
  /\ BagCardinality(authTasks) < MaxRequests
  /\ auth' = loginStarted(auth)
  /\ token' = requestInterceptor(token)
  /\ authTasks' = authTasks (+) SetToBag({AuthRequest(kind)})
  /\ UNCHANGED <<store, hooks, audio, pending, skipTimers, moveTimers>>

Login == AuthCall("login")

Register == AuthCall("register")

\* The response arrives with a token for a user (and the user or none in
\* its data): the token is stored and the update is delayed by 100 ms.
AuthSucceeds ==
  \E kind \in {"login", "register"}, user \in Users, withUser \in BOOLEAN :
    /\ BagIn(AuthRequest(kind), authTasks)
    /\ token' = [user |-> user, expired |-> FALSE]
    /\ authTasks' = (authTasks (-) SetToBag({AuthRequest(kind)}))
                      (+) SetToBag({AuthTimer(IF withUser THEN user ELSE 0)})
    /\ UNCHANGED <<auth, store, hooks, audio, pending, skipTimers, moveTimers>>

\* The response arrives without a token.
AuthFails ==
  \E kind \in {"login", "register"} :
    /\ BagIn(AuthRequest(kind), authTasks)
    /\ auth' = loginFailed(auth, IF kind = "login" THEN "Login failed"
                                 ELSE "Registration failed")
    /\ authTasks' = authTasks (-) SetToBag({AuthRequest(kind)})
    /\ UNCHANGED <<token, store, hooks, audio, pending, skipTimers, moveTimers>>

\* The 100 ms timer of a successful login / register fires.
AuthTimerFires ==
  \E task \in AuthTimers :
    /\ BagIn(task, authTasks)
    /\ auth' = loginTimerFired(auth, task.user)
    /\ authTasks' = authTasks (-) SetToBag({task})
    /\ UNCHANGED <<token, store, hooks, audio, pending, skipTimers, moveTimers>>

\* logout(): the player is stopped and closed, the token removed, the store
\* set to logged out. Nothing in flight is cancelled.
Logout ==
  /\ Rerender(stopAndClosePlayer(store), audio, pending)
  /\ token' = NoToken
  /\ auth' = logoutAuth(auth)
  /\ UNCHANGED <<hooks, skipTimers, moveTimers, authTasks>>

\* loadUser() up to its first return or its await
LoadUser ==
  \E isPublicPage \in BOOLEAN :
    /\ IF ~authServiceIsAuthenticated(token)
         THEN /\ auth' = loadUserNoToken(auth)
              /\ UNCHANGED authTasks
         ELSE IF isPublicPage
         THEN /\ auth' = loadUserPublicPage(loadUserStarted(auth))
              /\ UNCHANGED authTasks
         ELSE /\ BagCardinality(authTasks) < MaxRequests
              /\ auth' = loadUserStarted(auth)
              /\ authTasks' = authTasks
                     (+) SetToBag({LoadUserRequest(token.user, auth.user)})
    /\ UNCHANGED <<token, store, hooks, audio, pending, skipTimers, moveTimers>>

\* getCurrentUser answers with the user of the request's token: the player
\* is closed when that is not the user loadUser saw before the call.
LoadUserSucceeds ==
  \E task \in LoadUserRequests :
    /\ BagIn(task, authTasks)
    /\ IF task.currentUserId # 0 /\ task.user # task.currentUserId
         THEN Rerender(stopAndClosePlayer(store), audio, pending)
         ELSE UNCHANGED <<store, audio, pending>>
    /\ auth' = loadUserData(auth, task.user)
    /\ authTasks' = authTasks (-) SetToBag({task})
    /\ UNCHANGED <<token, hooks, skipTimers, moveTimers>>

\* getCurrentUser answers without data (or the call throws): the token is
\* removed and the store set to logged out.
LoadUserFails ==
  \E task \in LoadUserRequests,
     message \in {"Failed to fetch user profile", "Session expired"} :
    /\ BagIn(task, authTasks)
    /\ token' = NoToken
    /\ auth' = loadUserNoData(auth, message)
    /\ authTasks' = authTasks (-) SetToBag({task})
    /\ UNCHANGED <<store, hooks, audio, pending, skipTimers, moveTimers>>

\* The clock comes within 10 s of the stored token's expiration.
TokenExpires ==
  /\ token.user # 0 /\ ~token.expired
  /\ token' = [token EXCEPT !.expired = TRUE]
  /\ UNCHANGED <<auth, authTasks, store, hooks, audio, pending, skipTimers,
                 moveTimers>>

\* The application is opened with or without a token in localStorage and
\* the player bar mounted; users log in, register, log out, the pages call
\* loadUser, songs are started.
AuthInit ==
  /\ store = InitialStore
  /\ hooks = 1
  /\ audio = mountEffects([audio |-> InitialAudio, pending |-> EmptyBag], InitialStore).audio
  /\ pending = EmptyBag
  /\ skipTimers = 0
  /\ moveTimers = <<>>
  /\ token \in Tokens
  /\ auth = InitialAuth(token)
  /\ authTasks = EmptyBag

AuthNext ==
  \/ Login
  \/ Register
  \/ AuthSucceeds
  \/ AuthFails
  \/ AuthTimerFires
  \/ Logout
  \/ LoadUser
  \/ LoadUserSucceeds
  \/ LoadUserFails
  \/ TokenExpires
  \/ PlaySong({1})
  \/ ResolveAcceptedSome

AuthSpec == AuthInit /\ [][AuthNext]_vars

\* Hooks and audio element with a stream-URL service that may reject: tracks
\* are started, paused, resumed and closed while resolutions complete or fail.
ResolverNext ==
  \/ Mount
  \/ Unmount
  \/ PlaySong(EngineSongs)
  \/ TogglePlay
  \/ NextSong
  \/ AddToQueue(EngineSongs)
  \/ StopAndClosePlayer
  \/ ResolveSome
  \/ RejectSome

ResolverSpec == Init /\ [][ResolverNext]_vars

\* ------------------------------------------------------------------- claims
HasPlaylistContext(s) == s.currentPlaylist.id # 0 /\ Len(s.currentPlaylist.songs) > 0
PlaylistIndex(s) == findIndex(s.currentPlaylist.songs, s.currentSong)
ValidStarts(songs) == 0..(Len(songs) - 1)

\* the fields of PlayerState outside changed are the same in s and t
SameOutside(s, t, changed) == \A f \in (DOMAIN s) \ changed : s[f] = t[f]

\* next() called k times
RECURSIVE nextTimes(_, _)
nextTimes(s, k) == IF k = 0 THEN s ELSE nextTimes(next(s), k - 1)

\* C1: in every state reachable by store operations, isPlaying = true
\* implies that currentSong is not null.
PlayingImpliesTrack == store.isPlaying => store.currentSong # 0

\* a playing session reached after the player was hidden and the queue seeded
PlayingImpliesTrackWitness ==
  store.isPlaying /\ store.currentSong # 0 /\ Len(store.queue) > 0 /\ ~store.isPlayerVisible

\* C2: in every state reachable by store operations, the current track is
\* not an element of the queue.
CurrentNotInQueue == ~InQueue(store.queue, store.currentSong)

\* C3: a stream-URL resolution started for track A that completes when the
\* store's currentSong is another track B applies no operation to the device.
StaleResolutionIgnored ==
  [][\A task \in Tasks :
       (Resolve(task) /\ store.currentSong # 0 /\ store.currentSong # task.song)
         => audio' = audio]_vars

\* C4: with any number of mounted hooks, one 'ended' event causes exactly one
\* next() transition of the store and one 'error' event schedules at most
\* one skip.
DeviceEventHandledOnce ==
  [][/\ (DeviceEnded /\ hooks > 0) => store' = next(store)
     /\ DeviceError => skipTimers' <= skipTimers + 1]_vars

\* C5: in every reachable state in which the player is hidden the audio
\* device is not playing.
HiddenImpliesSilent == ~store.isPlayerVisible => audio.paused

\* C6: togglePlayerVisibility() called while the player is visible results
\* in isPlaying = false and progress = 0.
HidingStopsSession ==
  [][(TogglePlayerVisibility /\ store.isPlayerVisible)
       => (~store'.isPlaying /\ store'.progress = 0)]_vars

\* C7 as stated: playQueue(tracks, startIndex) with a valid startIndex makes
\* tracks[startIndex] current and keeps only the tracks after startIndex.
PlayQueueKeepsOnlyLater ==
  [][\A songs \in TrackLists : \A startIndex \in ValidStarts(songs) :
       StoreStep(playQueue(store, songs, startIndex))
         => /\ store'.currentSong = songs[startIndex + 1]
            /\ store'.queue = SubSeq(songs, startIndex + 2, Len(songs))]_vars

\* C7 amended: playQueue(tracks, startIndex) with a valid startIndex makes
\* tracks[startIndex] current and the queue is the tracks before startIndex
\* followed by the tracks after it, from every reachable state:
\* playQueue([A,B,C], 1) gives B and [A,C].
PlayQueueKeepsEarlier ==
  \A songs \in TrackLists : \A startIndex \in ValidStarts(songs) :
    LET after == playQueue(store, songs, startIndex)
    IN  /\ after.currentSong = songs[startIndex + 1]
        /\ after.queue = SubSeq(songs, 1, startIndex)
                           \o SubSeq(songs, startIndex + 2, Len(songs))

\* the state playQueue([1,2,3], 1) ends in
PlayQueueKeepsEarlierWitness ==
  /\ store.currentSong = 2 /\ store.queue = <<1, 3>>
  /\ store.isPlaying /\ store.progress = 0 /\ store.currentPlaylist = NoPlaylist

\* C8: playQueue(tracks, startIndex) with non-empty tracks and a startIndex
\* in range sets currentSong = tracks[startIndex], the queue to tracks with
\* exactly that one element taken out (putting it back at startIndex gives
\* tracks again), progress = 0 and isPlaying = true, from every reachable
\* state.
PlayQueueEffect ==
  \A songs \in TrackLists : \A startIndex \in ValidStarts(songs) :
    LET after == playQueue(store, songs, startIndex)
    IN  /\ after.currentSong = songs[startIndex + 1]
        /\ Len(after.queue) = Len(songs) - 1
        /\ SubSeq(after.queue, 1, startIndex) \o <<songs[startIndex + 1]>>
             \o SubSeq(after.queue, startIndex + 1, Len(after.queue)) = songs
        /\ after.progress = 0
        /\ after.isPlaying

\* the state playQueue([3,1,2], 2) ends in, the last track of the list current
PlayQueueEffectWitness ==
  /\ store.currentSong = 2 /\ store.queue = <<3, 1>>
  /\ store.isPlaying /\ store.progress = 0

\* C9 as stated: previous() below 3 seconds restarts the current track, and
\* above 3 seconds inside a playlist context moves to the preceding track.
PreviousBoundaryAsStated ==
  [][Previous
       => /\ store.progress < RestartThreshold
               => (store'.progress = 0 /\ store'.currentSong = store.currentSong)
          /\ (store.progress > RestartThreshold /\ HasPlaylistContext(store)
                /\ PlaylistIndex(store) > 0)
               => store'.currentSong = store.currentPlaylist.songs[PlaylistIndex(store)]]_vars

\* C9 amended: from every reachable state, previous() above 3 seconds
\* restarts the current track (progress = 0, currentSong unchanged), and
\* previous() not above 3 seconds inside a playlist context whose first track
\* is not the current one moves currentSong to the preceding track of the
\* playlist.
PreviousBoundary ==
  LET after == previous(store)
      songs == store.currentPlaylist.songs
  IN  /\ store.progress > RestartThreshold
           => (after.progress = 0 /\ after.currentSong = store.currentSong)
      /\ (store.progress <= RestartThreshold /\ HasPlaylistContext(store)
            /\ PlaylistIndex(store) > 0)
           => \E k \in 2..Len(songs) :
                /\ songs[k] = store.currentSong
                /\ \A j \in 1..(k - 1) : songs[j] # store.currentSong
                /\ after.currentSong = songs[k - 1]

\* previous() is about to move back from the last track of a playlist at 2.9 s
PreviousBoundaryWitness ==
  /\ store.progress = 29 /\ HasPlaylistContext(store) /\ PlaylistIndex(store) = 2
  /\ previous(store).currentSong = 2 /\ previous(store).queue = <<3>>

\* C10: from every reachable state, previous() called with progress above 3
\* seconds sets progress to 0 and leaves currentSong, queue, isPlaying and
\* currentPlaylist unchanged, with or without a playlist context.
PreviousRestartFrame ==
  LET after == previous(store)
  IN  store.progress > RestartThreshold
        => /\ after.progress = 0
           /\ after.currentSong = store.currentSong
           /\ after.queue = store.queue
           /\ after.isPlaying = store.isPlaying
           /\ after.currentPlaylist = store.currentPlaylist

\* previous() is about to restart a paused track that has a predecessor in
\* its playlist
PreviousRestartFrameWitness ==
  /\ store.progress = 31 /\ ~store.isPlaying /\ Len(store.queue) > 0
  /\ HasPlaylistContext(store) /\ PlaylistIndex(store) > 0
  /\ previous(store).progress = 0

\* C11: playQueue(tracks, startIndex) with an empty list or a startIndex
\* outside 0..len(tracks)-1, negative ones included, changes no field of the
\* store and throws nothing to the caller, from every reachable state.
PlayQueueInvalidIgnored ==
  \A songs \in TrackLists : \A startIndex \in StartIndexes :
    (Len(songs) = 0 \/ startIndex \notin ValidStarts(songs))
      => /\ playQueue(store, songs, startIndex) = store
         /\ ~playQueueThrows(songs, startIndex)

\* C12: from every reachable state stopAndClosePlayer() yields currentSong =
\* null, queue = [], currentPlaylist = null, isPlaying = false, progress = 0,
\* isPlayerVisible = false and isFullscreen = false.
StopAndCloseResets ==
  LET after == stopAndClosePlayer(store)
  IN  /\ after.currentSong = 0
      /\ after.queue = <<>>
      /\ after.currentPlaylist = NoPlaylist
      /\ ~after.isPlaying
      /\ after.progress = 0
      /\ ~after.isPlayerVisible
      /\ ~after.isFullscreen

\* stopAndClosePlayer() is about to reset a session in which every field it
\* names differs from the empty tuple
StopAndCloseResetsWitness ==
  /\ store.currentSong # 0 /\ Len(store.queue) > 0 /\ HasPlaylistContext(store)
  /\ store.isPlaying /\ store.progress > 0
  /\ store.isPlayerVisible /\ store.isFullscreen
  /\ stopAndClosePlayer(store).currentSong = 0

\* C13: in every step in which currentSong goes from a track to null the
\* store changes as stopAndClosePlayer() changes it; playSong, playQueue,
\* playPlaylist, next and previous never leave currentSong null.
OnlyStopNullsTrack ==
  [][(store.currentSong # 0 /\ store'.currentSong = 0)
       => store' = stopAndClosePlayer(store)]_vars

\* a track is current with nothing queued and no playlist context: next()
\* stops here, and the track stays in place
OnlyStopNullsTrackWitness ==
  /\ store.currentSong # 0 /\ store.isPlaying
  /\ Len(store.queue) = 0 /\ ~HasPlaylistContext(store)
  /\ ~next(store).isPlaying /\ next(store).currentSong = store.currentSong

\* C14: from every reachable state, playSong(t) with t already current
\* changes nothing except that isPlaying is true afterwards (progress is not
\* reset), and for every t playSong(t); playSong(t) gives the same state as
\* playSong(t) alone.
PlaySongIdempotentResume ==
  \A song \in Songs :
    /\ store.currentSong = song
         => playSong(store, song) = [store EXCEPT !.isPlaying = TRUE]
    /\ playSong(playSong(store, song), song) = playSong(store, song)

\* playSong(t) is about to resume a paused, hidden track at 3.1 s with a
\* queue behind it
PlaySongIdempotentResumeWitness ==
  /\ store.currentSong # 0 /\ ~store.isPlaying /\ store.progress = 31
  /\ Len(store.queue) > 0 /\ ~store.isPlayerVisible
  /\ playSong(store, store.currentSong).progress = 31

\* C15: from every reachable state with an empty queue and a playlist context
\* that has tracks, next() sets currentSong to the first playlist track, the
\* queue to the remaining playlist tracks in order and progress to 0.
NextRestartsPlaylist ==
  LET after == next(store)
      songs == store.currentPlaylist.songs
  IN  (Len(store.queue) = 0 /\ HasPlaylistContext(store))
        => /\ after.currentSong = songs[1]
           /\ after.queue = SubSeq(songs, 2, Len(songs))
           /\ after.progress = 0

\* playlist {1,2}, track 2 current, queue empty: next() wraps to track 1 with
\* queue [2]
NextRestartsPlaylistWitness ==
  /\ store.currentPlaylist.songs = <<1, 2>> /\ store.currentPlaylist.id # 0
  /\ store.currentSong = 2 /\ store.queue = <<>> /\ store.progress > 0
  /\ next(store).currentSong = 1 /\ next(store).queue = <<2>>

\* C20: togglePlayerVisibility() that hides the player leaves isFullscreen
\* false, and togglePlayerVisibility() that shows the player leaves
\* isFullscreen as it was before the call.
HidingLeavesFullscreen ==
  [][TogglePlayerVisibility
       => /\ store.isPlayerVisible => ~store'.isFullscreen
          /\ ~store.isPlayerVisible => store'.isFullscreen = store.isFullscreen]_vars

\* C16 as stated: with a source assigned to the device, a progress change by
\* seekTo() is written to the device if and only if the device position and
\* the new progress differ by more than 1 second, and a time report of the
\* device passed on to the store leaves the device at the position it
\* reported.
SeekIffBeyondThreshold ==
  [][/\ \A time \in ProgressInputs :
          (/\ StoreStep(setProgress(store, time))
           /\ hooks > 0 /\ audio.src # 0 /\ time # store.progress)
            => audio'.currentTime =
                 IF Abs(audio.currentTime - time) > SeekThreshold
                 THEN time ELSE audio.currentTime
     /\ (hooks > 0 /\ DeviceTimeUpdate)
          => /\ audio'.currentTime = Min(audio.currentTime + TimeStep, SongLength)
             /\ store'.progress = audio'.currentTime]_vars

\* C16 amended: a progress change by seekTo() is written to the device if and
\* only if the device has the metadata of its source (its duration is known)
\* and the device position and the new progress differ by more than 1
\* second; before the metadata is there no seek is written.  A time report
\* of the device passed on to the store leaves the device at the position it
\* reported.
SeekIffLoadedAndBeyondThreshold ==
  [][/\ \A time \in ProgressInputs :
          (hooks > 0 /\ time # store.progress /\ store'.progress = time
             /\ StoreStep(setProgress(store, time)))
            => audio'.currentTime =
                 IF audio.hasMetadata /\ Abs(audio.currentTime - time) > SeekThreshold
                 THEN time ELSE audio.currentTime
     /\ (hooks > 0 /\ DeviceTimeUpdate)
          => /\ audio'.currentTime = Min(audio.currentTime + TimeStep, SongLength)
             /\ store'.progress = audio'.currentTime]_vars

\* the playing device stands at 3.1 s, a position that only a seek produces
\* (time reports advance in steps of TimeStep from 0, 2.9, 3.0 or beyond 3.1)
SeekIffLoadedAndBeyondThresholdWitness ==
  /\ hooks > 0 /\ audio.hasMetadata /\ ~audio.paused
  /\ audio.currentTime = 31 /\ store.progress = 31

\* C17: an 'error' event with a non-empty queue changes nothing in the store
\* at the time of the event and schedules the skip, next() is called when
\* the delay has elapsed; with an empty queue the store is paused at once and
\* no skip is scheduled, with or without a playlist context.
ErrorSkipsAfterDelay ==
  [][/\ (DeviceError /\ hooks > 0)
          => IF Len(store.queue) > 0
             THEN store' = store /\ skipTimers' > skipTimers
             ELSE store' = pause(store) /\ skipTimers' = skipTimers
     /\ SkipTimer => store' = next(store)]_vars

\* a skip is waiting for its delay while the queue has become empty inside a
\* playlist context: the next 'error' event pauses
ErrorSkipsAfterDelayWitness ==
  /\ hooks > 0 /\ audio.src # 0 /\ skipTimers > 0
  /\ Len(store.queue) = 0 /\ HasPlaylistContext(store) /\ store.isPlaying

\* C18: a rejected stream-URL resolution changes neither the device nor the
\* store, and the mounted hooks go on reacting: playSong of another track
\* starts a new load.
RejectionLeavesDevice ==
  /\ [][\A task \in Tasks : Reject(task) => (audio' = audio /\ store' = store)]_vars
  /\ [](hooks > 0
          => \A song \in EngineSongs :
               song # store.currentSong
                 => BagIn(LoadTask(song, TRUE),
                          allHookEffects(Engine, store, playSong(store, song), hooks).pending))

\* every resolution for the playing track was rejected: nothing is loaded and
\* nothing is in flight
RejectionLeavesDeviceWitness ==
  /\ hooks > 0 /\ store.currentSong # 0 /\ store.isPlaying
  /\ audio.src = 0 /\ audio.paused /\ pending = EmptyBag

\* C19: the completion of a resolution, with its play() accepted or rejected,
\* changes no store field; and where the store says playing while the device
\* is paused, togglePlay() twice leaves a resolution in flight whose
\* completion calls play() on the device.
PlayRejectionKeepsStore ==
  /\ [][ResolveSome => store' = store]_vars
  /\ []((hooks > 0 /\ store.isPlaying /\ store.currentSong # 0 /\ audio.paused)
          => LET s1 == togglePlay(store)
                 e1 == allHookEffects(Engine, store, s1, hooks)
                 s2 == togglePlay(s1)
                 e2 == allHookEffects(e1, s1, s2, hooks)
             IN  /\ ~s1.isPlaying /\ s2.isPlaying
                 /\ BagIn(ResumeTask(store.currentSong), e2.pending)
                 /\ ~handlePlayPauseResolved(e2.audio, ResumeTask(store.currentSong), TRUE).paused)

\* the store says playing, the track is loaded, the device is paused and
\* nothing is in flight: the state a rejected play() leaves behind
PlayRejectionKeepsStoreWitness ==
  /\ hooks > 0 /\ store.isPlaying /\ store.currentSong # 0 /\ store.isPlayerVisible
  /\ audio.src = store.currentSong /\ audio.paused /\ pending = EmptyBag

\* C21: from every reachable state, toggleFullscreen() on a hidden player
\* sets isPlayerVisible = true and isFullscreen = true, on a visible player
\* it flips isFullscreen and leaves isPlayerVisible as it is; every other
\* field is unchanged in both cases.
ToggleFullscreenEffect ==
  LET after == toggleFullscreen(store)
  IN  /\ SameOutside(store, after, {"isPlayerVisible", "isFullscreen"})
      /\ after.isPlayerVisible
      /\ after.isFullscreen = (IF store.isPlayerVisible THEN ~store.isFullscreen ELSE TRUE)

\* toggleFullscreen() is about to show a hidden player that has a playing
\* track and a queue
ToggleFullscreenEffectWitness ==
  /\ ~store.isPlayerVisible /\ ~store.isFullscreen
  /\ store.currentSong # 0 /\ store.isPlaying /\ Len(store.queue) > 0
  /\ toggleFullscreen(store).isPlayerVisible /\ toggleFullscreen(store).isFullscreen

\* C24: from every reachable state with progress not above 3 seconds and a
\* playlist context, previous() with currentSong at index i > 0 of the
\* playlist sets currentSong = playlist[i-1], queue = the playlist from index
\* i on and progress = 0; with currentSong first in the playlist or not in
\* it, it sets progress = 0 and leaves currentSong and queue unchanged.
PreviousInPlaylist ==
  LET after == previous(store)
      songs == store.currentPlaylist.songs
      i     == PlaylistIndex(store)
  IN  (store.progress <= RestartThreshold /\ HasPlaylistContext(store))
        => IF i > 0
           THEN /\ after.currentSong = songs[i]
                /\ after.queue = SubSeq(songs, i + 1, Len(songs))
                /\ after.progress = 0
           ELSE /\ after.progress = 0
                /\ after.currentSong = store.currentSong
                /\ after.queue = store.queue

\* previous() at exactly 3.0 s with a current track that is not in the
\* playlist of the context: the track is restarted
PreviousInPlaylistWitness ==
  /\ store.progress = 30 /\ HasPlaylistContext(store)
  /\ store.currentSong # 0 /\ PlaylistIndex(store) = -1 /\ Len(store.queue) > 0
  /\ previous(store).progress = 0 /\ previous(store).currentSong = store.currentSong

\* C25: from every reachable state, playPlaylist(playlist, startIndex) with
\* a playlist without tracks or a startIndex out of range changes no field of
\* the store, currentPlaylist included, and throws nothing.
PlayPlaylistInvalidIgnored ==
  \A playlist \in Playlists : \A startIndex \in StartIndexes :
    (Len(playlist.songs) = 0 \/ startIndex \notin ValidStarts(playlist.songs))
      => /\ playPlaylist(store, playlist, startIndex) = store
         /\ ~playPlaylistThrows(playlist, startIndex)

\* C26: from every reachable state with an empty queue and no playlist
\* context with tracks, next() sets isPlaying = false and progress = 0 and
\* leaves every other field unchanged, and playSong or playQueue after it
\* give a playing store again.
NextStops ==
  LET after == next(store)
  IN  (Len(store.queue) = 0 /\ ~HasPlaylistContext(store))
        => /\ ~after.isPlaying
           /\ after.progress = 0
           /\ SameOutside(store, after, {"isPlaying", "progress"})
           /\ \A song \in Songs : playSong(after, song).isPlaying
           /\ \A songs \in TrackLists : \A startIndex \in ValidStarts(songs) :
                playQueue(after, songs, startIndex).isPlaying

\* a hidden player is playing its only track at 3.1 s: next() stops here
NextStopsWitness ==
  /\ store.currentSong # 0 /\ store.isPlaying /\ store.progress = 31
  /\ Len(store.queue) = 0 /\ store.currentPlaylist = NoPlaylist
  /\ ~store.isPlayerVisible
  /\ ~next(store).isPlaying /\ next(store).progress = 0

\* C27: from every reachable state with a non-empty queue, next() makes the
\* queue head current, removes that head only, sets progress = 0 and
\* isPlaying = true, also inside a playlist context; and two tracks added by
\* addToQueue are reached by next() in the order they were added, after the
\* tracks queued before them.
NextIsFifo ==
  /\ Len(store.queue) > 0
       => LET after == next(store)
          IN  /\ after.currentSong = Head(store.queue)
              /\ after.queue = Tail(store.queue)
              /\ after.progress = 0
              /\ after.isPlaying
              /\ SameOutside(store, after, {"currentSong", "queue", "progress", "isPlaying"})
  /\ \A a, b \in Songs :
       LET added == addToQueue(addToQueue(store, a), b)
           n     == Len(store.queue)
       IN  /\ nextTimes(added, n + 1).currentSong = a
           /\ nextTimes(added, n + 2).currentSong = b
           /\ nextTimes(added, n + 1).queue = <<b>>

\* two tracks are queued inside a playlist context while the player is
\* paused: next() takes the queue head, not the playlist
NextIsFifoWitness ==
  /\ Len(store.queue) = 2 /\ store.queue[1] # store.queue[2]
  /\ HasPlaylistContext(store) /\ store.currentPlaylist.songs[1] # store.queue[1]
  /\ ~store.isPlaying /\ store.currentSong # 0
  /\ next(store).currentSong = store.queue[1]

\* C28: from every reachable state, playSong(t) with t different from
\* currentSong sets currentSong = t, progress = 0, isPlaying = true and
\* isPlayerVisible = true and leaves queue, currentPlaylist, volume, duration
\* and isFullscreen unchanged.
PlaySongFrame ==
  \A song \in Songs :
    LET after == playSong(store, song)
    IN  song # store.currentSong
          => /\ after.currentSong = song
             /\ after.progress = 0
             /\ after.isPlaying
             /\ after.isPlayerVisible
             /\ SameOutside(store, after,
                            {"currentSong", "progress", "isPlaying", "isPlayerVisible"})

\* playSong of another track is about to replace a paused track of a hidden
\* player that has a queue, a playlist context and a changed volume
PlaySongFrameWitness ==
  /\ store.currentSong # 0 /\ ~store.isPlaying /\ ~store.isPlayerVisible
  /\ Len(store.queue) > 0 /\ HasPlaylistContext(store)
  /\ store.volume # InitialVolume /\ store.duration # 0 /\ store.progress > 0
  /\ \E song \in Songs : song # store.currentSong /\ playSong(store, song).queue = store.queue

\* C29: volume is within [0, 1] in every reachable state, setVolume(v) stores
\* 0 for v < 0, 1 for v > 1 and v otherwise, and every step that changes
\* volume is a setVolume.
VolumeInRange ==
  /\ [](/\ store.volume >= 0 /\ store.volume <= MaxVolume
        /\ \A v \in VolumeInputs :
             setVolume(store, v).volume
               = (IF v < 0 THEN 0 ELSE IF v > MaxVolume THEN MaxVolume ELSE v))
  /\ [][store'.volume # store.volume
          => \E v \in VolumeInputs : store' = setVolume(store, v)]_vars

\* the volume was clamped to 0 from a negative input while a track plays
VolumeInRangeWitness ==
  /\ store.volume = 0 /\ store.currentSong # 0 /\ store.isPlaying

\* C22: globalAudioElement is created once, on first use, and over mounts,
\* unmounts, re-renders and store operations (stopAndClosePlayer included)
\* it is never created again: at most one new Audio() was ever assigned, a
\* mounted hook always has the element, and an existing element stays.
DeviceIsSingleton ==
  /\ [](/\ audio.created <= 1
        /\ audio.exists <=> audio.created = 1
        /\ hooks > 0 => audio.exists)
  /\ [][audio.exists => (audio'.exists /\ audio'.created = audio.created)]_vars

\* the player was closed with a loaded element, the volume was changed and
\* two components are mounted: still the first element
DeviceIsSingletonWitness ==
  /\ audio.created = 1 /\ hooks = MaxHooks /\ audio.src # 0
  /\ store.currentSong = 0 /\ ~store.isPlayerVisible
  /\ store.volume # InitialVolume /\ audio.volume = store.volume

\* C23: pausing and resuming the same track.  When togglePlay() turns
\* isPlaying off with hooks mounted, the element is paused and nothing else
\* of it changes (source, position, metadata); when togglePlay() turns
\* isPlaying on again the element is left alone until the stream url
\* resolves; and a resolution (of loadSong or of handlePlayPause) whose url
\* is the source the element has loaded does not assign the source, does not
\* call load and does not move the position: it can only start playback,
\* and only when its closure captured isPlaying = true.
PauseResumeKeepsPosition ==
  [][/\ (hooks > 0 /\ store.currentSong # 0 /\ store.isPlaying /\ ~store'.isPlaying
          /\ TogglePlay)
          => audio' = devicePause(audio)
     /\ (hooks > 0 /\ store.currentSong # 0 /\ ~store.isPlaying /\ store'.isPlaying
          /\ TogglePlay)
          => audio' = audio
     /\ \A task \in Tasks :
          (audio.src # 0 /\ audio.src = task.song /\ Resolve(task))
            => /\ audio'.src = audio.src
               /\ audio'.currentTime = audio.currentTime
               /\ audio'.hasMetadata = audio.hasMetadata
               /\ audio'.paused # audio.paused => (task.playing /\ audio.paused)]_vars

\* the current track was paused in the middle, the resolution started by the
\* pause has completed, and the element still has its source and position
PauseResumeKeepsPositionWitness ==
  /\ hooks > 0 /\ ~store.isPlaying /\ store.currentSong # 0
  /\ audio.src = store.currentSong /\ audio.paused /\ audio.hasMetadata
  /\ audio.currentTime > TimeStep /\ store.progress = audio.currentTime
  /\ pending = EmptyBag

\* C30: when the last delayed step of a move of the queue panel has run, the
\* queue is the queue of the click with the two adjacent entries swapped and
\* currentSong is the currentSong of the click.
MoveSwapsAdjacent ==
  [][(MoveTimer /\ Head(moveTimers).stage = 2)
       => /\ store'.queue = Head(moveTimers).newQueue
          /\ store'.currentSong = Head(moveTimers).current]_vars

\* C33: in every state reachable by store operations, isFullscreen = true
\* implies isPlayerVisible = true.
FullscreenImpliesVisible == store.isFullscreen => store.isPlayerVisible

\* C37: from every reachable state, previous() called without a playlist
\* context (or with a context that has no tracks) and with progress not above
\* 3 seconds changes no field: currentSong stays and progress is not reset.
PreviousWithoutContext ==
  (~HasPlaylistContext(store) /\ store.progress <= RestartThreshold)
    => previous(store) = store

\* a track played on its own is at exactly 3.0 s with a queue behind it
PreviousWithoutContextWitness ==
  /\ store.currentPlaylist = NoPlaylist /\ store.currentSong # 0
  /\ store.progress = RestartThreshold /\ store.isPlaying /\ Len(store.queue) > 0
  /\ previous(store).progress = RestartThreshold

\* C31: whenever no stream-URL resolution is in flight, the device is playing
\* only if the store's isPlaying is true.
SettledDeviceFollowsStore ==
  (pending = EmptyBag /\ ~audio.paused) => store.isPlaying

\* C32: while the player is closed (the state stopAndClosePlayer() leaves:
\* no current song, not playing, hidden), a stream-URL resolution that
\* completes or a delayed error skip that fires does not load a source and
\* does not start the device.
ClosedStaysSilent ==
  [][(/\ store.currentSong = 0 /\ ~store.isPlaying /\ ~store.isPlayerVisible
      /\ (ResolveSome \/ SkipTimer))
       => (audio'.src = audio.src /\ audio'.paused = audio.paused)]_vars

\* C34: the current track is loaded and produces an error that schedules a
\* skip; during the delay the user plays another track u; the delayed next()
\* then leaves u as the current track.
ErrorSkipSparesUserChoice ==
  (/\ hooks > 0 /\ store.currentSong # 0 /\ audio.src = store.currentSong
   /\ handleErrorTimers(store, hooks) > 0)
    => \A u \in Songs \ {store.currentSong} :
         next(playSong(handleErrorStore(store, hooks), u)).currentSong = u

\* C36: after playSong(t) on the initial store with the player visible, with
\* no further store operation, resolutions that complete and a device that
\* accepts play(), the device eventually has t's url as its source and is
\* playing.
PlaySongStartsDevice ==
  <>(store.currentSong # 0 /\ audio.src = store.currentSong /\ ~audio.paused)

\* every resolution has completed while components came and went: the
\* track is loaded and playing
PlaySongStartsDeviceWitness ==
  /\ store.currentSong # 0 /\ store.isPlaying /\ store.isPlayerVisible
  /\ audio.src = store.currentSong /\ ~audio.paused /\ audio.hasMetadata
  /\ pending = EmptyBag /\ hooks = MaxHooks

\* C35: when every loaded track produces a device error and the user calls
\* no store operation, the system eventually reaches isPlaying = false with
\* no skip pending, with or without a playlist context.
ErrorSkippingTerminates == <>(~store.isPlaying /\ skipTimers = 0)

\* C38: after logout() the auth store stays logged out: neither the delayed
\* update of an earlier login / register nor a getCurrentUser response that
\* completes after the logout sets isAuthenticated back to true.
LogoutIsFinal ==
  /\ \A task \in InFlight(AuthTimers) :
       ~loginTimerFired(logoutAuth(auth), task.user).isAuthenticated
  /\ \A task \in InFlight(LoadUserRequests) :
       ~loadUserData(logoutAuth(auth), task.user).isAuthenticated

====
